---- MODULE Spec2Model ----
(***************************************************************************)
(* Model of the language server of libsolidity/lsp: the JSON-RPC transport *)
(* (Transport.cpp) and the dispatcher, document synchronisation and        *)
(* diagnostics publication (LanguageServer.cpp).                           *)
(*                                                                         *)
(* Texts are sequences of one-character strings; offsets are 0-based as in *)
(* the C++ code, sequences are 1-based, so byte o of a text t is t[o + 1]. *)
(* JSON values are records tagged by the field t ("null", "str", "obj",    *)
(* "nonobj").                                                              *)
(***************************************************************************)
EXTENDS Integers, Sequences, FiniteSets, TLC

----------------------------------------------------------------------------
(* Bounds of the model *)

\* longest text a document of the store holds
MaxLen == 2
\* most entries of one contentChanges array
MaxChanges == 2
\* most frames the client has written and the server has not yet read
MaxPending == 1
\* most errors one compilation reports
MaxErrors == 1
\* longest text of the position round trip
MaxProbeLen == 3
\* largest character of the end of the range of the example change
MaxExampleColumn == 17

----------------------------------------------------------------------------
(* JSON values *)

NL == "\n"
JNull == [t |-> "null"]
JStr(s) == [t |-> "str", s |-> s]
\* a structured value that is not a string: an array or an object
JNonStr == [t |-> "nonstr"]
\* a value that is not an object: a number, a string, an array
JNonObj == [t |-> "nonobj"]
JPos(l, c) == [t |-> "obj", line |-> l, character |-> c]
JRange(s, e) == [t |-> "obj", start |-> s, end |-> e]

\* Json::Value::asString: a string is itself, null is the empty string, and
\* an array or an object raises Json::LogicError
asStringThrows(v) == v.t \notin {"str", "null"}
asString(v) == IF v.t = "str" THEN v.s ELSE <<>>
JsonLogicError == "Type is not convertible to string"

----------------------------------------------------------------------------
(* Position translation (CharStream) *)

npos == -1

\* std::string::find(ch, from): offset of the first ch at or after from
RECURSIVE find(_, _, _)
find(text, ch, from) ==
    IF from >= Len(text) THEN npos
    ELSE IF text[from + 1] = ch THEN from
    ELSE find(text, ch, from + 1)

\* std::string::rfind(ch, from): offset of the last ch at or before from
RECURSIVE rfind(_, _, _)
rfind(text, ch, from) ==
    IF from < 0 THEN npos
    ELSE IF from < Len(text) /\ text[from + 1] = ch THEN from
    ELSE rfind(text, ch, from - 1)

\* the loop "for i < line: offset = find('\n', offset); offset++"
RECURSIVE skipLines(_, _, _)
skipLines(text, line, offset) ==
    IF line = 0 THEN offset
    ELSE LET nl == find(text, NL, offset)
         IN  IF nl = npos THEN npos ELSE skipLines(text, line - 1, nl + 1)

\* the column part of translateLineColumnToPosition, for the offset of the
\* start of the line: the column must lie within the line and the text
endColumnOffset(text, offset, column) ==
    IF offset = npos THEN npos
    ELSE IF offset + column > Len(text) THEN npos
    ELSE IF \E j \in offset .. (offset + column - 1) : text[j + 1] = NL THEN npos
    ELSE offset + column

\* CharStream::translateLineColumnToPosition(text, {line, column}):
\* the offset, or npos for "not found"
translateLineColumnToPosition(text, line, column) ==
    IF line < 0 \/ column < 0 THEN npos
    ELSE endColumnOffset(text, skipLines(text, line, 0), column)

\* CharStream::translatePositionToLineColumn(position)
translatePositionToLineColumn(text, position) ==
    LET searchPosition == IF position < Len(text) THEN position ELSE Len(text)
        lineNumber == Cardinality({j \in 1 .. searchPosition : text[j] = NL})
        found == IF searchPosition = 0 THEN npos ELSE rfind(text, NL, searchPosition - 1)
        lineStart == IF found = npos THEN 0 ELSE found + 1
    IN  [line |-> lineNumber, column |-> searchPosition - lineStart]

\* SourceLocation::hasText
hasText(loc) == loc.sourceName # "null" /\ 0 <= loc.start /\ loc.start <= loc.end

----------------------------------------------------------------------------
(* Document store (FileRepository) *)

\* client paths the editor uses, and the source unit names they map to
UriA == "file:///A.sol"
UriB == "file:///B.sol"
\* the client path an absent "uri" member reads as
UriEmpty == ""
\* a source the compiler loads by itself (an import), never in the store
ImportedName == "lib.sol"
ImportedSource == <<"a">>

\* FileRepository::clientPathToSourceUnitName
clientPathToSourceUnitName(uri) ==
    CASE uri = UriA -> "A.sol"
      [] uri = UriB -> "B.sol"
      [] OTHER -> uri

\* FileRepository::sourceUnitNameToClientPath
sourceUnitNameToClientPath(name) ==
    CASE name = "A.sol" -> UriA
      [] name = "B.sol" -> UriB
      [] OTHER -> name

\* FileRepository::setSourceByClientPath: the store with the text of uri set
setSourceByClientPath(units, uri, text) ==
    LET name == clientPathToSourceUnitName(uri)
    IN  [n \in DOMAIN units \cup {name} |-> IF n = name THEN text ELSE units[n]]

\* the keys of a std::map are visited in lexicographic order
NameOrder == <<"", "A.sol", "B.sol", "lib.sol">>
IsKey(units, n) == n \in DOMAIN units
sortedKeys(units) == SelectSeq(NameOrder, LAMBDA n : IsKey(units, n))

----------------------------------------------------------------------------
(* LanguageServer: positions and ranges *)

NoLocation == [start |-> -1, end |-> -1, sourceName |-> "null"]
nullopt == [start |-> -1, end |-> -1, sourceName |-> "nullopt"]

\* faulty variant: line and column change places
toJson_swapped(pos) ==
    JPos(IF pos.column > 0 THEN pos.column ELSE 0, IF pos.line > 0 THEN pos.line ELSE 0)

\* toJson(LineColumn): both components clamped to >= 0
toJson(pos) ==
    JPos(IF pos.line > 0 THEN pos.line ELSE 0, IF pos.column > 0 THEN pos.column ELSE 0)

toJsonRange(start, end) == JRange(toJson(start), toJson(end))

\* parseLineColumn: the pair, or "none"
parseLineColumnOk(lineColumn) == lineColumn.t = "obj"

\* the end of parsePosition: "if (!offset.has_value()) return nullopt;
\* return SourceLocation{*offset, *offset, sourceUnitName}"
locationAt(offset, sourceUnitName) ==
    IF offset = npos THEN nullopt
    ELSE [start |-> offset, end |-> offset, sourceName |-> sourceUnitName]

\* LanguageServer::parsePosition
parsePosition(units, sourceUnitName, position) ==
    IF sourceUnitName \notin DOMAIN units THEN nullopt
    ELSE IF ~parseLineColumnOk(position) THEN nullopt
    ELSE locationAt(translateLineColumnToPosition(
                        units[sourceUnitName], position.line, position.character),
                    sourceUnitName)

\* the end of parseRange: "if (!start || !end) return nullopt;
\* solAssert(*start->sourceName == *end->sourceName); start->end = end->end"
locationBetween(start, end) ==
    IF start = nullopt \/ end = nullopt THEN nullopt
    ELSE [start |-> start.start, end |-> end.end, sourceName |-> start.sourceName]

\* LanguageServer::parseRange
parseRange(units, sourceUnitName, range) ==
    IF range.t # "obj" THEN nullopt
    ELSE locationBetween(parsePosition(units, sourceUnitName, range.start),
                         parsePosition(units, sourceUnitName, range.end))

\* CompilerStack::charStream: the text the last compilation read for a name
charStream(compiled, name) ==
    IF name \in DOMAIN compiled THEN compiled[name] ELSE ImportedSource

\* LanguageServer::toRange
toRange(compiled, location) ==
    IF ~hasText(location)
    THEN toJsonRange([line |-> 0, column |-> 0], [line |-> 0, column |-> 0])
    ELSE LET stream == charStream(compiled, location.sourceName)
         IN  toJsonRange(translatePositionToLineColumn(stream, location.start),
                         translatePositionToLineColumn(stream, location.end))

----------------------------------------------------------------------------
(* Transport: outbound messages *)

\* a MessageID is a JSON value; these are the ids of the requests of the model
NullId == "null"
Ids == {"1", "2"}
NoException == "none"

\* JSONTransport::send, called by error: the id member is written only when
\* the id is not null
error(s, id, code, message) ==
    [s EXCEPT !.out = Append(@, [kind |-> "error", id |-> id, code |-> code,
                                 message |-> message])]

\* JSONTransport::reply
reply(s, id, result) ==
    [s EXCEPT !.out = Append(@, [kind |-> "reply", id |-> id, result |-> result])]

\* JSONTransport::notify
notify(s, method, params) ==
    [s EXCEPT !.out = Append(@, [kind |-> "notify", method |-> method,
                                 params |-> params])]

\* an exception leaves the handler: what() is recorded for the catch in run
throw(s, what) == [s EXCEPT !.exc = what]

\* Json::Value::operator[] const: a member of an object, null for a missing
\* member and for a null value; any other value raises Json::LogicError
memberThrows(v) == v.t \notin {"null", "obj"}
member(v, key) == IF v.t = "obj" /\ key \in DOMAIN v THEN v[key] ELSE JNull
JsonObjectError == "Value::operator[] requires objectValue"
\* Json::Value::asString for a string the model keeps whole (a method name,
\* a client path)
asAtom(v) == IF v.t = "str" THEN v.s ELSE ""

----------------------------------------------------------------------------
(* LanguageServer: compilation and diagnostics *)

\* LanguageServer::changeConfiguration
changeConfiguration(s, settings) == [s EXCEPT !.settingsObject = settings]

\* LanguageServer::compile: the compiler stack reads the texts of the store
compile(s) == [s EXCEPT !.compiled = s.units, !.compilations = @ + 1]

\* the loop over m_compilerStack.errors(): an error without a location or
\* without a source name is skipped, any other is appended to the array of
\* its source name (operator[] creates the array of a name that has none)
RECURSIVE appendErrors(_, _, _)
appendErrors(diagnosticsBySourceUnit, compiled, errors) ==
    IF errors = <<>> THEN diagnosticsBySourceUnit
    ELSE LET location == Head(errors)
             name == location.sourceName
             old == IF name \in DOMAIN diagnosticsBySourceUnit
                    THEN diagnosticsBySourceUnit[name] ELSE <<>>
             jsonDiag == [source |-> "solc", range |-> toRange(compiled, location)]
         IN  IF name = "null"
             THEN appendErrors(diagnosticsBySourceUnit, compiled, Tail(errors))
             ELSE appendErrors(
                     [n \in DOMAIN diagnosticsBySourceUnit \cup {name} |->
                         IF n = name THEN Append(old, jsonDiag)
                         ELSE diagnosticsBySourceUnit[n]],
                     compiled, Tail(errors))

\* the last loop of compileAndUpdateDiagnostics: one notification per name,
\* in key order
RECURSIVE publishAll(_, _, _)
publishAll(s, names, diagnosticsBySourceUnit) ==
    IF names = <<>> THEN s
    ELSE publishAll(
            notify(s, "textDocument/publishDiagnostics",
                   [uri |-> sourceUnitNameToClientPath(Head(names)),
                    diagnostics |-> diagnosticsBySourceUnit[Head(names)]]),
            Tail(names), diagnosticsBySourceUnit)

\* faulty variant: the notifications go to every name that has a diagnostics array
compileAndUpdateDiagnostics_buckets(s, errors) ==
    LET c == compile(s)
        empty == [n \in DOMAIN c.units |-> <<>>]
        diagnosticsBySourceUnit == appendErrors(empty, c.compiled, errors)
    IN  publishAll(c, sortedKeys(diagnosticsBySourceUnit), diagnosticsBySourceUnit)

\* LanguageServer::compileAndUpdateDiagnostics; errors are the locations of
\* the errors the compiler reports for the compiled sources
compileAndUpdateDiagnostics(s, errors) ==
    LET c == compile(s)
        empty == [n \in DOMAIN c.units |-> <<>>]
        diagnosticsBySourceUnit == appendErrors(empty, c.compiled, errors)
    IN  publishAll(c, sortedKeys(c.units), diagnosticsBySourceUnit)

----------------------------------------------------------------------------
(* LanguageServer: handlers *)

BasePathDefault == <<"/">>
FileScheme == "file://"

\* faulty variant: every scheme passes for the file scheme
starts_with_any(rootPath, scheme) == Len(rootPath) >= 1

\* boost::starts_with(rootPath, "file://"), for a string that is a sequence
\* of tokens, a scheme being one token
starts_with(rootPath, scheme) == Len(rootPath) >= 1 /\ Head(rootPath) = scheme

\* LanguageServer::handleInitialize; a root URI or path is a sequence of
\* tokens, the first of which is the scheme of a URI
handleInitialize(s, id, args, errors) ==
    IF memberThrows(args) THEN throw(s, JsonObjectError)
    ELSE LET uri == member(args, "rootUri")
             options == member(args, "initializationOptions")
             replyArgs == [serverInfo |-> "solc", openClose |-> TRUE, change |-> 2]
             finish(rootPath) ==
                 LET based == [s EXCEPT !.basePath = rootPath]
                     configured == IF options.t = "obj"
                                   THEN changeConfiguration(based, options)
                                   ELSE based
                 IN  reply(configured, id, replyArgs)
         IN  IF uri.t # "null"
             THEN IF asStringThrows(uri) THEN throw(s, JsonLogicError)
                  ELSE IF ~starts_with(uri.s, FileScheme)
                       THEN error(s, id, "InvalidParams",
                                  <<"rootUri only supports file URI scheme.">>)
                       ELSE finish(Tail(uri.s))
             \* "else if (Json::Value rootPath = _args["rootPath"])" declares
             \* a new variable and assigns it to itself: the string rootPath
             \* keeps its initial value "/"
             ELSE IF asStringThrows(member(args, "rootPath"))
                  THEN throw(s, JsonLogicError)
                  ELSE finish(BasePathDefault)

\* LanguageServer::handleWorkspaceDidChangeConfiguration
handleWorkspaceDidChangeConfiguration(s, id, args, errors) ==
    IF memberThrows(args) THEN throw(s, JsonObjectError)
    ELSE IF member(args, "settings").t = "obj"
         THEN changeConfiguration(s, member(args, "settings"))
         ELSE s

\* LanguageServer::handleTextDocumentDidOpen
handleTextDocumentDidOpen(s, id, args, errors) ==
    IF memberThrows(args) THEN throw(s, JsonObjectError)
    ELSE LET textDocument == member(args, "textDocument")
             \* no return after the error: the handler goes on
             s1 == IF textDocument.t = "null"
                   THEN error(s, id, "RequestFailed", <<"Text document parameter missing.">>)
                   ELSE s
         IN  IF memberThrows(textDocument) THEN throw(s1, JsonObjectError)
             ELSE IF asStringThrows(member(textDocument, "text"))
                     \/ asStringThrows(member(textDocument, "uri"))
                  THEN throw(s1, JsonLogicError)
                  ELSE LET text == asString(member(textDocument, "text"))
                           uri == asAtom(member(textDocument, "uri"))
                       IN  compileAndUpdateDiagnostics(
                               [s1 EXCEPT !.units = setSourceByClientPath(@, uri, text)],
                               errors)

\* faulty variant: everything from pos on is replaced
replace_tail(buffer, pos, len, str) == SubSeq(buffer, 1, pos) \o str

\* faulty variant: the end of the range is passed as the length
replace_end(buffer, pos, len, str) ==
    LET n == IF pos + (pos + len) > Len(buffer) THEN Len(buffer) - pos ELSE pos + len
    IN  SubSeq(buffer, 1, pos) \o str \o SubSeq(buffer, pos + n + 1, Len(buffer))

\* std::string::replace(pos, len, str) for pos <= size
replace(buffer, pos, len, str) ==
    LET n == IF pos + len > Len(buffer) THEN Len(buffer) - pos ELSE len
    IN  SubSeq(buffer, 1, pos) \o str \o SubSeq(buffer, pos + n + 1, Len(buffer))

\* the end of the loop body for an entry with a range: the change is
\* rejected if the range does not resolve, else spliced into the text and stored
applyRange(s, id, uri, range, change, text) ==
    IF change = nullopt \/ ~hasText(change)
    THEN [s |-> error(s, id, "RequestFailed", <<"Invalid source range: ", range>>),
          returned |-> TRUE]
    ELSE [s |-> [s EXCEPT !.units =
                    setSourceByClientPath(
                        @, uri,
                        replace(s.units[clientPathToSourceUnitName(uri)], change.start,
                                change.end - change.start, text))],
          returned |-> FALSE]

\* the body of the loop over contentChanges for one entry: the server after
\* it, and whether the handler has returned in it
applyContentChange(s, id, uri, jsonContentChange) ==
    LET sourceUnitName == clientPathToSourceUnitName(uri)
        range == member(jsonContentChange, "range")
        text == asString(member(jsonContentChange, "text"))
        return(state) == [s |-> state, returned |-> TRUE]
    IN  IF jsonContentChange.t # "obj"
        THEN return(error(s, id, "RequestFailed", <<"Invalid content reference.">>))
        ELSE IF sourceUnitName \notin DOMAIN s.units
        THEN return(error(s, id, "RequestFailed", <<"Unknown file: ", uri>>))
        ELSE IF asStringThrows(member(jsonContentChange, "text"))
        THEN return(throw(s, JsonLogicError))
        ELSE IF range.t = "obj"
        THEN applyRange(s, id, uri, range,
                        parseRange(s.units, sourceUnitName, range), text)
        ELSE [s |-> [s EXCEPT !.units = setSourceByClientPath(@, uri, text)],
              returned |-> FALSE]

\* the loop over contentChanges from entry i on, entry being the outcome of
\* the body for entry i - 1, and the recompilation after the last entry
RECURSIVE applyContentChanges(_, _, _, _, _, _)
applyContentChanges(entry, id, uri, changes, i, errors) ==
    IF entry.returned THEN entry.s
    ELSE IF i > Len(changes) THEN compileAndUpdateDiagnostics(entry.s, errors)
    ELSE applyContentChanges(applyContentChange(entry.s, id, uri, changes[i]),
                             id, uri, changes, i + 1, errors)

\* LanguageServer::handleTextDocumentDidChange
handleTextDocumentDidChange(s, id, args, errors) ==
    IF memberThrows(args) \/ memberThrows(member(args, "textDocument"))
    THEN throw(s, JsonObjectError)
    ELSE IF asStringThrows(member(member(args, "textDocument"), "uri"))
    THEN throw(s, JsonLogicError)
    ELSE LET uri == asAtom(member(member(args, "textDocument"), "uri"))
             contentChanges == member(args, "contentChanges")
             \* a value that is not an array has no elements to iterate
             changes == IF contentChanges.t = "arr" THEN contentChanges.items ELSE <<>>
         IN  applyContentChanges([s |-> s, returned |-> FALSE], id, uri, changes, 1,
                                 errors)

\* the handlers of the table that are lambdas
\* faulty variant: the "exit" lambda also takes the shutdown request back
handleExit_clears(s, id, args, errors) ==
    [s EXCEPT !.exitRequested = TRUE, !.shutdownRequested = FALSE]
handleExit(s, id, args, errors) == [s EXCEPT !.exitRequested = TRUE]
\* faulty variant: the "shutdown" lambda sets the flag of "exit"
handleShutdown_exits(s, id, args, errors) == [s EXCEPT !.exitRequested = TRUE]
handleShutdown(s, id, args, errors) == [s EXCEPT !.shutdownRequested = TRUE]
handleNothing(s, id, args, errors) == s

\* the keys of m_handlers
HandlerNames ==
    {"$/cancelRequest", "cancelRequest", "exit", "initialize", "initialized",
     "shutdown", "textDocument/didChange", "textDocument/didClose",
     "textDocument/didOpen", "workspace/didChangeConfiguration"}

\* m_handlers[methodName](id, params)
callHandler(methodName, s, id, args, errors) ==
    CASE methodName = "exit" -> handleExit(s, id, args, errors)
      [] methodName = "initialize" -> handleInitialize(s, id, args, errors)
      [] methodName = "shutdown" -> handleShutdown(s, id, args, errors)
      [] methodName = "textDocument/didChange" ->
             handleTextDocumentDidChange(s, id, args, errors)
      [] methodName = "textDocument/didOpen" ->
             handleTextDocumentDidOpen(s, id, args, errors)
      [] methodName = "workspace/didChangeConfiguration" ->
             handleWorkspaceDidChangeConfiguration(s, id, args, errors)
      [] OTHER -> handleNothing(s, id, args, errors)

\* faulty variant: the catch clause does not match, the exception is passed on
catch_rethrows(s, what) == s
\* "catch (exception const& e)" of run: the exception is answered, not passed on
catch(s, what) ==
    error([s EXCEPT !.exc = NoException], NullId, "InternalError",
          <<"Unhandled exception: ", what>>)

\* faulty variant: the error text leaves the method name out
unknownMethod_unnamed(s, id, methodName) ==
    error(s, id, "MethodNotFound", <<"Unknown method ", "">>)
\* the else branch of the handler lookup in run
unknownMethod(s, id, methodName) ==
    error(s, id, "MethodNotFound", <<"Unknown method ", methodName>>)

\* the try block around a handler call: s is the server when the call ends,
\* by a return or by an exception
try(s) == IF s.exc # NoException THEN catch(s, s.exc) ELSE s

\* the try block of LanguageServer::run and its catch, for a parsed message
dispatch(s, jsonMessage, errors) ==
    IF memberThrows(jsonMessage) THEN catch(throw(s, JsonObjectError), JsonObjectError)
    ELSE IF asStringThrows(member(jsonMessage, "method"))
    THEN catch(throw(s, JsonLogicError), JsonLogicError)
    ELSE LET methodName == asAtom(member(jsonMessage, "method"))
             id == IF "id" \in DOMAIN jsonMessage THEN jsonMessage.id ELSE NullId
             params == member(jsonMessage, "params")
         IN  IF methodName \in HandlerNames
             THEN try(callHandler(methodName, s, id, params, errors))
             ELSE unknownMethod(s, id, methodName)

----------------------------------------------------------------------------
(* Transport: inbound frames *)

(* The unread input is a sequence of chunks.  A line chunk is one line with
   its line end: "clen" is a content-length header whose value is the length
   of the body of its frame, "clenNaN" a content-length header whose value is
   not a number, "hdr" any other header, "nocolon" a line without ':' and
   "blank" the empty line.  A body chunk has no line end: "json" is a body
   that is valid JSON, "junk" one that is not (and has no ':').  What a valid
   body says is chosen when the body is parsed. *)
LineChunks == {"clen", "clenNaN", "hdr", "nocolon", "blank"}
BodyChunks == {"json", "junk"}

\* JSONTransport::parseHeaders on the unread input p; partial is what getline
\* has read of the current line: "" nothing, "c" bytes with a ':', "n" bytes
\* without.  Blocks when the input runs out before the client has closed it.
RECURSIVE parseHeaders(_, _, _, _)
parseHeaders(p, ended, contentLength, partial) ==
    IF p = <<>>
    THEN IF ~ended
         THEN [status |-> "block", contentLength |-> contentLength, rest |-> p, eof |-> FALSE]
         \* getline reaches the end of the input: the line is what was read
         ELSE IF partial = "n"
              THEN [status |-> "nullopt", contentLength |-> contentLength, rest |-> p,
                    eof |-> TRUE]
              ELSE [status |-> "ok", contentLength |-> contentLength, rest |-> p,
                    eof |-> TRUE]
    ELSE IF Head(p) \in BodyChunks
    THEN parseHeaders(Tail(p), ended, contentLength,
                      IF Head(p) = "json" \/ partial = "c" THEN "c" ELSE "n")
    ELSE LET hasColon == partial = "c" \/ Head(p) \in {"clen", "clenNaN", "hdr"}
             isEmpty == partial = "" /\ Head(p) = "blank"
             value == IF partial = "" /\ Head(p) = "clen" THEN "number"
                      ELSE IF partial = "" /\ Head(p) = "clenNaN" THEN "nan"
                      ELSE contentLength
         IN  IF isEmpty
             THEN [status |-> "ok", contentLength |-> contentLength, rest |-> Tail(p),
                   eof |-> FALSE]
             ELSE IF ~hasColon
             THEN [status |-> "nullopt", contentLength |-> contentLength, rest |-> Tail(p),
                   eof |-> FALSE]
             ELSE parseHeaders(Tail(p), ended, value, "")

\* util::readBytes(m_input, length) for the length of a "clen" header: the
\* body that follows the headers, or what is left when the input has ended
readBytes(rest, ended, eof) ==
    IF rest = <<>>
    THEN IF ~ended /\ ~eof THEN [data |-> "block", rest |-> rest, eof |-> eof]
         ELSE [data |-> "empty", rest |-> rest, eof |-> TRUE]
    ELSE IF Head(rest) \in BodyChunks
    THEN [data |-> Head(rest), rest |-> Tail(rest), eof |-> eof]
    ELSE [data |-> "misaligned", rest |-> rest, eof |-> eof]

\* faulty variant: the errors of the JSON parser are not looked at
parsePayload_unchecked(body) ==
    [status |-> "message", message |-> <<>>, rest |-> body.rest, eof |-> body.eof]

\* the end of JSONTransport::receive: jsonParseStrict of the bytes read, an
\* error response if it reports errors, the parsed value if not
parsePayload(body) ==
    IF body.data = "json"
    THEN [status |-> "message", message |-> <<>>, rest |-> body.rest, eof |-> body.eof]
    ELSE [status |-> "nullopt", message |-> <<"Could not parse RPC JSON payload. ">>,
          rest |-> body.rest, eof |-> body.eof]

\* JSONTransport::receive on the unread input p.  status: "message" (a parsed
\* value is returned), "nullopt", "throw" (std::stoul raises) or "block";
\* message is the text of the error the transport has sent.
receive(p, ended) ==
    LET headers == parseHeaders(p, ended, "absent", "")
        result(status, message, rest, eof) ==
            [status |-> status, message |-> message, rest |-> rest, eof |-> eof]
    IN  IF headers.status = "block" THEN result("block", <<>>, p, FALSE)
        ELSE IF headers.status = "nullopt"
        THEN result("nullopt", <<"Could not parse RPC headers.">>, headers.rest, headers.eof)
        ELSE IF headers.contentLength = "absent"
        THEN result("nullopt", <<"No content-length header found.">>, headers.rest,
                    headers.eof)
        ELSE IF headers.contentLength = "nan"
        THEN result("throw", <<"stoul">>, headers.rest, headers.eof)
        ELSE LET body == readBytes(headers.rest, ended, headers.eof)
             IN  IF body.data = "block" THEN result("block", <<>>, p, FALSE)
                 ELSE IF body.data = "misaligned"
                 THEN result("misaligned", <<>>, body.rest, body.eof)
                 ELSE parsePayload(body)

----------------------------------------------------------------------------
(* State *)

VARIABLES
    units,              \* m_fileRepository.sourceUnits(): source unit name -> text
    compiled,           \* the sources m_compilerStack compiled last
    settingsObject,     \* m_settingsObject
    basePath,           \* the base path of m_fileRepository
    shutdownRequested,  \* m_shutdownRequested
    exitRequested,      \* m_exitRequested
    pending,            \* the chunks written to m_input and not yet read
    inputEnded,         \* the client has closed its end of m_input
    eof,                \* m_input.eof()
    pc,                 \* where run is: "running", "returned" or "escaped"
    returned,           \* the value run returned
    out,                \* what the last iteration of run wrote to m_output (kept
                        \* until the client writes again)
    last,               \* history: the last iteration of run (outcome of receive,
                        \* message, compiler errors, compilations; kept until
                        \* the client writes again) and the error receive sent
                        \* in it and in the iteration before it
    handled,            \* history: the methods "shutdown" and "exit" were dispatched
    probe               \* the position round trip: its input and results

vars == <<units, compiled, settingsObject, basePath, shutdownRequested, exitRequested,
          pending, inputEnded, eof, pc, returned, out, last, handled, probe>>

\* the members of LanguageServer a handler reads and writes
server ==
    [units |-> units, compiled |-> compiled, settingsObject |-> settingsObject,
     basePath |-> basePath, shutdownRequested |-> shutdownRequested,
     exitRequested |-> exitRequested, out |-> <<>>, exc |-> NoException,
     compilations |-> 0]

NoUnits == [n \in {} |-> <<>>]
NoProbe == [stage |-> "none"]
NoLast ==
    [outcome |-> "none", cause |-> <<>>, previous |-> <<>>, message |-> JNull,
     errors |-> <<>>, compilations |-> 0]

\* the state after the constructor, with the store holding docs
InitWith(docs) ==
    /\ units = docs
    /\ compiled = docs
    /\ settingsObject = JNull
    /\ basePath = BasePathDefault
    /\ shutdownRequested = FALSE
    /\ exitRequested = FALSE
    /\ pending = <<>>
    /\ inputEnded = FALSE
    /\ eof = FALSE
    /\ pc = "running"
    /\ returned = FALSE
    /\ out = <<>>
    /\ last = NoLast
    /\ handled = [shutdown |-> FALSE, exit |-> FALSE]

serverVars == <<units, compiled, settingsObject, basePath, shutdownRequested,
                exitRequested, eof, pc, returned, handled>>

----------------------------------------------------------------------------
(* The client *)

\* the client writes one frame
ClientSend(frame) ==
    /\ ~inputEnded
    /\ pc = "running"
    /\ Len(pending) <= MaxPending
    /\ pending' = pending \o frame
    /\ out' = <<>>
    /\ last' = [NoLast EXCEPT !.cause = last.cause, !.previous = last.previous]
    /\ UNCHANGED <<serverVars, inputEnded, probe>>

\* the client closes the stream
ClientClose ==
    /\ ~inputEnded
    /\ inputEnded' = TRUE
    /\ UNCHANGED <<serverVars, out, last, pending, probe>>

----------------------------------------------------------------------------
(* LanguageServer::run *)

\* the end of an iteration: s is the server after it
endIteration(r, s, jsonMessage, errors, maxLen) ==
    LET methodName == IF r.status = "message" /\ ~memberThrows(jsonMessage)
                         /\ ~asStringThrows(member(jsonMessage, "method"))
                      THEN asAtom(member(jsonMessage, "method"))
                      ELSE ""
    IN  /\ \A n \in DOMAIN s.units : Len(s.units[n]) <= maxLen
        /\ units' = s.units
        /\ compiled' = s.compiled
        /\ settingsObject' = s.settingsObject
        /\ basePath' = s.basePath
        /\ shutdownRequested' = s.shutdownRequested
        /\ exitRequested' = s.exitRequested
        /\ out' = s.out
        /\ pending' = r.rest
        /\ eof' = r.eof
        \* an exception that leaves receive leaves run: nothing catches it
        /\ pc' = IF r.status = "throw" \/ s.exc # NoException THEN "escaped"
                 ELSE "running"
        /\ last' = [outcome |-> r.status, cause |-> r.message, previous |-> last.cause,
                    message |-> jsonMessage,
                    errors |-> IF s.compilations > 0 THEN errors ELSE <<>>,
                    compilations |-> s.compilations]
        /\ handled' = [shutdown |-> handled.shutdown \/ methodName = "shutdown",
                       exit |-> handled.exit \/ methodName = "exit"]
        /\ UNCHANGED <<inputEnded, returned, probe>>

\* one iteration of the loop of run for the outcome r of receive: jsonMessage
\* is what a valid body says, errors what the compiler reports if it runs
Iterate(r, jsonMessage, errors, maxLen) ==
    endIteration(
        r,
        IF r.status = "message"
        THEN dispatch(server, jsonMessage, errors)
        ELSE IF r.status = "nullopt"
        \* the error receive has sent, then the error run sends
        THEN error(error(server, NullId, "ParseError", r.message),
                   NullId, "ParseError", <<"Error parsing JSONRPC request.">>)
        ELSE server,
        jsonMessage, errors, maxLen)

\* faulty variant: the loop condition does not look at m_exitRequested
RunIteration_ignoresExit(Messages, Errors, maxLen) ==
    /\ pc = "running"
    /\ ~eof
    /\ LET r == receive(pending, inputEnded)
       IN  /\ r.status \in {"message", "nullopt", "throw"}
           /\ \E jsonMessage \in (IF r.status = "message" THEN Messages ELSE {JNull}),
                 errors \in (IF r.status = "message" THEN Errors ELSE {<<>>}) :
                  Iterate(r, jsonMessage, errors, maxLen)

\* the body of "while (!m_exitRequested && !m_client.closed())"
RunIteration(Messages, Errors, maxLen) ==
    /\ pc = "running"
    /\ ~exitRequested
    /\ ~eof
    /\ LET r == receive(pending, inputEnded)
       IN  /\ r.status \in {"message", "nullopt", "throw"}
           /\ \E jsonMessage \in (IF r.status = "message" THEN Messages ELSE {JNull}),
                 errors \in (IF r.status = "message" THEN Errors ELSE {<<>>}) :
                  Iterate(r, jsonMessage, errors, maxLen)

\* the loop condition fails: "return m_shutdownRequested"
RunReturn ==
    /\ pc = "running"
    /\ exitRequested \/ eof
    /\ pc' = "returned"
    /\ returned' = shutdownRequested
    /\ UNCHANGED <<units, compiled, settingsObject, basePath, shutdownRequested,
                   exitRequested, pending, inputEnded, eof, out, last, handled, probe>>

----------------------------------------------------------------------------
(* Inbound frames and messages of the specifications *)

GoodFrame == <<"clen", "blank", "json">>
ExtraHeaderFrame == <<"hdr", "clen", "blank", "json">>
BadJsonFrame == <<"clen", "blank", "junk">>
NoColonFirstFrame == <<"nocolon", "clen", "blank", "json">>
NoColonLastFrame == <<"clen", "nocolon", "blank", "json">>
NoLengthFrame == <<"hdr", "blank", "json">>
NaNLengthFrame == <<"clenNaN", "blank", "json">>
Frames == {GoodFrame, ExtraHeaderFrame, BadJsonFrame, NoColonFirstFrame,
           NoColonLastFrame, NoLengthFrame, NaNLengthFrame}

Message(method, id, params) ==
    [t |-> "obj", method |-> JStr(method), id |-> id, params |-> params]
TextDocument(uri, text) == [t |-> "obj", uri |-> JStr(uri), text |-> text]
DidOpenParams(uri, text) == [t |-> "obj", textDocument |-> TextDocument(uri, text)]
Change(text, range) == [t |-> "obj", text |-> text, range |-> range]
DidChangeParams(uri, changes) ==
    [t |-> "obj", textDocument |-> [t |-> "obj", uri |-> JStr(uri)],
     contentChanges |-> [t |-> "arr", items |-> changes]]
EmptyObject == [t |-> "obj"]
Settings == [t |-> "obj", name |-> "settings"]

\* sequences of at most n elements of S
SeqsUpTo(S, n) == UNION {[1 .. k -> S] : k \in 0 .. n}

\* the compiler reports at most MaxErrors errors, each with one of locations
ErrorsOf(locations) == SeqsUpTo(locations, MaxErrors)

LifecycleMessages ==
    {Message(m, id, JNull) :
        m \in {"shutdown", "exit", "initialized", "$/cancelRequest", "cancelRequest",
               "textDocument/didClose"},
        id \in {NullId, "1"}}

UnknownMessages ==
    {Message(m, id, JNull) : m \in {"foo/bar", "Shutdown"}, id \in {NullId, "1", "2"}}
    \cup {[t |-> "obj", id |-> "1", params |-> JNull]}

\* messages whose method or id cannot be extracted
BrokenMessages ==
    {JNonObj, [t |-> "obj", method |-> JNonStr, id |-> "1", params |-> JNull]}

InitializeMessages ==
    {Message("initialize", "1",
             [t |-> "obj", rootUri |-> uri, rootPath |-> path,
              initializationOptions |-> options]) :
        uri \in {JNull, JStr(<<"file://", "/p">>), JStr(<<"http://", "/p">>), JNonStr},
        path \in {JNull, JStr(<<"/q">>)},
        options \in {JNull, Settings}}

ConfigurationMessages ==
    {Message("workspace/didChangeConfiguration", NullId, params) :
        params \in {JNull, JNonObj, [t |-> "obj", settings |-> Settings],
                    [t |-> "obj", settings |-> JStr("x")]}}

DidOpenMessages(uris, texts) ==
    {Message("textDocument/didOpen", id, DidOpenParams(uri, JStr(text))) :
        id \in {NullId}, uri \in uris, text \in texts}
    \cup {Message("textDocument/didOpen", id, params) :
            id \in {NullId, "1"},
            params \in {JNull, JNonObj, EmptyObject, DidOpenParams(UriA, JNonStr),
                        [t |-> "obj", textDocument |-> JNonObj]}}

DidChangeMessages(uris, changes, n) ==
    {Message("textDocument/didChange", id, DidChangeParams(uri, batch)) :
        id \in {"1"}, uri \in uris, batch \in SeqsUpTo(changes, n)}

\* the messages of Spec: the lifecycle methods, unknown methods, messages
\* whose method cannot be extracted, and a few that fill and change the store
MainMessages ==
    LifecycleMessages \cup UnknownMessages \cup BrokenMessages
    \cup {Message("textDocument/didOpen", NullId, DidOpenParams(UriA, JStr(<<"a">>))),
          Message("textDocument/didOpen", "1", DidOpenParams(UriA, JNonStr)),
          Message("textDocument/didOpen", "1", JNonObj),
          Message("textDocument/didChange", "1",
                  DidChangeParams(UriA, <<Change(JStr(<<"b">>), JNull)>>)),
          Message("textDocument/didChange", "1",
                  DidChangeParams(UriA, <<Change(JNonStr, JNull)>>)),
          Message("workspace/didChangeConfiguration", NullId,
                  [t |-> "obj", settings |-> Settings])}
MainErrors == ErrorsOf({[start |-> 0, end |-> 1, sourceName |-> "A.sol"]})

----------------------------------------------------------------------------
(* Spec: the server from its construction, fed any frames *)

Init == InitWith(NoUnits) /\ probe = NoProbe

Next ==
    \/ \E frame \in Frames : ClientSend(frame)
    \/ ClientClose
    \/ RunIteration(MainMessages, MainErrors, MaxLen)
    \/ RunReturn

Spec == Init /\ [][Next]_vars

----------------------------------------------------------------------------
(* Properties of run, checked under Spec *)

\* a step that is one iteration of the loop of run: it reads at least one
\* chunk or reaches the end of the input
IterationStep == pc = "running" /\ (Len(pending') < Len(pending) \/ eof' # eof)

\* the last iteration dispatched a message with the method name m
Dispatched(m) ==
    /\ last.outcome = "message"
    /\ last.message.t = "obj"
    /\ member(last.message, "method").t \in {"str", "null"}
    /\ asAtom(member(last.message, "method")) = m

IsError(o, code) == o.kind = "error" /\ o.code = code

\* C1: when run returns, it returns true if and only if a "shutdown" message
\* was dispatched before the loop ended
C1_ReturnsShutdown == pc = "returned" => (returned <=> handled.shutdown)

\* "shutdown" then "exit": run has returned true
C1_Witness == pc = "returned" /\ returned /\ handled.shutdown /\ handled.exit
                /\ Dispatched("exit")

\* C2: an iteration that dispatches a message whose method name is not a key
\* of the handler table writes exactly one response, a MethodNotFound error
\* whose text has the method name, and leaves the store, the configuration
\* and both flags as they were
C2_UnknownMethod ==
    [][(IterationStep /\ last'.outcome = "message" /\ last'.message.t = "obj"
        /\ member(last'.message, "method").t \in {"str", "null"}
        /\ asAtom(member(last'.message, "method")) \notin HandlerNames)
       => (/\ Len(out') = 1
           /\ IsError(out'[1], "MethodNotFound")
           /\ out'[1].message[Len(out'[1].message)]
                 = asAtom(member(last'.message, "method"))
           /\ UNCHANGED <<units, settingsObject, shutdownRequested, exitRequested>>)]_vars

\* "foo/bar" was answered while the store holds a document
C2_Witness ==
    /\ Dispatched("foo/bar")
    /\ units # NoUnits
    /\ Len(out) = 1 /\ IsError(out[1], "MethodNotFound")

\* the unread input starts with a frame whose content-length header is valid
\* and whose body, of that length, is not valid JSON
StartsWithBadJson ==
    Len(pending) >= 3 /\ SubSeq(pending, 1, 3) = BadJsonFrame

\* C3: the iteration that reads a frame with a valid content-length header
\* and a body that is not valid JSON writes a ParseError response with a
\* null id, changes no text and no other member of the server, reads exactly
\* that frame and stays in the loop: what follows on the stream is received
\* by a server in the state it had before the bad frame
C3_BadJsonSkipped ==
    [][(IterationStep /\ ~exitRequested /\ ~eof /\ StartsWithBadJson)
       => (/\ \E i \in 1 .. Len(out') :
                 IsError(out'[i], "ParseError") /\ out'[i].id = NullId
           /\ UNCHANGED <<units, compiled, settingsObject, basePath, shutdownRequested,
                          exitRequested, eof, pc>>
           /\ pending' = SubSeq(pending, 4, Len(pending)))]_vars

\* a message was dispatched to its handler right after a frame whose body
\* was not valid JSON, the store holding a document
C3_Witness ==
    /\ last.outcome = "message"
    /\ last.previous = <<"Could not parse RPC JSON payload. ">>
    /\ Dispatched("textDocument/didChange")
    /\ units # NoUnits
    /\ last.compilations = 1

\* the message raises an exception in run: its method or id cannot be
\* extracted, or its handler reads a member of a value that is not an
\* object, or a string from a value that is not one
Raises(m, store) ==
    \/ m.t = "nonobj"
    \/ member(m, "method").t = "nonstr"
    \/ /\ member(m, "method").t = "str"
       /\ \/ /\ m.method.s \in {"textDocument/didOpen", "textDocument/didChange",
                                "workspace/didChangeConfiguration", "initialize"}
             /\ m.params.t = "nonobj"
          \/ /\ m.method.s = "textDocument/didOpen"
             /\ member(member(m.params, "textDocument"), "text").t = "nonstr"
          \/ /\ m.method.s = "textDocument/didChange"
             /\ member(m.params, "contentChanges").t = "arr"
             /\ Len(m.params.contentChanges.items) >= 1
             /\ m.params.contentChanges.items[1].t = "obj"
             /\ member(m.params.contentChanges.items[1], "text").t = "nonstr"
             /\ clientPathToSourceUnitName(
                    asAtom(member(member(m.params, "textDocument"), "uri")))
                  \in DOMAIN store

\* C7: an iteration in which the handler, or the extraction of method and
\* id, raises an exception ends with an InternalError response that carries
\* the description of the exception, and run stays in its loop
C7_ExceptionAnswered ==
    [][(IterationStep /\ last'.outcome = "message" /\ Raises(last'.message, units))
       => (/\ Len(out') >= 1
           /\ IsError(out'[Len(out')], "InternalError")
           /\ out'[Len(out')].message[1] = "Unhandled exception: "
           /\ out'[Len(out')].message[2] \in {JsonLogicError, JsonObjectError}
           /\ pc' = "running")]_vars

\* a handler raised after the store was filled, and was answered
C7_Witness ==
    /\ last.outcome = "message"
    /\ Raises(last.message, units)
    /\ Dispatched("textDocument/didChange")
    /\ Len(out) = 1 /\ IsError(out[1], "InternalError")
    /\ pc = "running"

\* C8 as claimed: no exception leaves run, and every iteration whose frame
\* fails framing writes a ParseError response and stays in the loop
C8_FramingFailureContinues ==
    /\ pc # "escaped"
    /\ last.outcome = "nullopt"
          => \E i \in 1 .. Len(out) : IsError(out[i], "ParseError")

\* C13: once "exit" has been handled, no step reads from the input, calls
\* a handler, changes a member of the server or writes to the output,
\* whatever follows "exit" on the stream
C13_NothingAfterExit ==
    [][exitRequested
       => (/\ UNCHANGED <<units, compiled, settingsObject, basePath, shutdownRequested,
                          exitRequested, eof, handled>>
           /\ \E n \in 0 .. Len(pending') : SubSeq(pending', 1, n) = pending
           /\ out' \in {out, <<>>}
           /\ last'.outcome \in {last.outcome, "none"})]_vars

\* run has returned after "exit" and has left a frame that followed "exit"
\* on the stream unread
C13_Witness ==
    /\ pc = "returned"
    /\ handled.exit
    /\ exitRequested
    /\ pending = GoodFrame
    /\ out = <<>>

\* C14 as claimed: when the client has closed the stream right after a
\* complete frame that was received as a message, the iteration that finds
\* the end of the input writes no ParseError response
C14_QuietEndOfInput ==
    [][(/\ IterationStep
        /\ last.outcome = "message"
        /\ pending = <<>>
        /\ inputEnded)
       => \A i \in 1 .. Len(out') : ~IsError(out'[i], "ParseError")]_vars

\* C17: each of the two flags is false until a message with the method of
\* its handler ("shutdown", "exit") has been dispatched, so both are false
\* before the first message and no other handler sets them; and a flag that
\* is true stays true
C17_FlagsMonotonic ==
    /\ [](~handled.shutdown => ~shutdownRequested)
    /\ [](~handled.exit => ~exitRequested)
    /\ [][/\ shutdownRequested => shutdownRequested'
          /\ exitRequested => exitRequested'
          /\ shutdownRequested' # shutdownRequested => Dispatched("shutdown")'
          /\ exitRequested' # exitRequested => Dispatched("exit")']_vars

\* "shutdown" was handled, a document was opened after it and then "exit" was
\* handled: both flags are true
C17_Witness ==
    /\ shutdownRequested /\ exitRequested
    /\ handled.shutdown /\ handled.exit
    /\ units # NoUnits
    /\ Dispatched("exit")

\* C19 as claimed: after an iteration that dispatched a message whose method
\* and id were extracted, the id not being null, every error response the
\* iteration wrote carries the id of the message
C19_ErrorsEchoId ==
    (/\ last.outcome = "message"
     /\ last.message.t = "obj"
     /\ member(last.message, "method").t \in {"str", "null"}
     /\ "id" \in DOMAIN last.message
     /\ last.message.id # NullId)
    => \A i \in 1 .. Len(out) : out[i].kind = "error" => out[i].id = last.message.id

\* C20 as claimed: an iteration whose frame fails framing or JSON parsing
\* writes exactly one ParseError response
C20_OneParseError ==
    [][(IterationStep /\ pending # <<>> /\ last'.outcome \in {"nullopt", "throw"})
       => Cardinality({i \in 1 .. Len(out') : IsError(out'[i], "ParseError")}) = 1]_vars

----------------------------------------------------------------------------
(* SpecDocs: several documents are opened and changed, and the compiler
   reports errors in them, in no document and in an imported source *)

DocsFrames == {GoodFrame}
DocsChanges ==
    {JNonObj, Change(JStr(<<"b">>), JNull),
     Change(JStr(<<>>), JRange(JPos(0, 0), JPos(0, 1))),
     Change(JStr(<<"b">>), JRange(JPos(0, 1), JPos(0, 0)))}
DocsMessages ==
    DidOpenMessages({UriA, UriB}, {<<>>, <<"a">>})
    \cup DidChangeMessages({UriA, UriB}, DocsChanges, 1)
    \cup {Message("exit", NullId, JNull)}
DocsErrors ==
    ErrorsOf({NoLocation, [start |-> 0, end |-> 1, sourceName |-> "A.sol"],
              [start |-> 0, end |-> 0, sourceName |-> "B.sol"],
              [start |-> 0, end |-> 1, sourceName |-> ImportedName]})

NextDocs ==
    \/ \E frame \in DocsFrames : ClientSend(frame)
    \/ ClientClose
    \/ RunIteration(DocsMessages, DocsErrors, MaxLen)
    \/ RunReturn

SpecDocs == Init /\ [][NextDocs]_vars

\* the places in out of the publishDiagnostics notifications for a client path
Published(uri) ==
    {i \in 1 .. Len(out) :
        /\ out[i].kind = "notify"
        /\ out[i].method = "textDocument/publishDiagnostics"
        /\ out[i].params.uri = uri}

\* C6: after an iteration that ran compileAndUpdateDiagnostics, every
\* document of the store has exactly one publishDiagnostics notification and
\* every notification is for a document of the store
C6_PublishedAreKnown ==
    last.compilations > 0 =>
        /\ \A n \in DOMAIN units :
              Cardinality(Published(sourceUnitNameToClientPath(n))) = 1
        /\ \A i \in 1 .. Len(out) :
              out[i].kind = "notify" =>
                 \E n \in DOMAIN units :
                    out[i].params.uri = sourceUnitNameToClientPath(n)

\* two documents are known, the only error is in an imported source, and a
\* notification with an empty diagnostics array was published
C6_Witness ==
    /\ last.compilations > 0
    /\ {"A.sol", "B.sol"} \subseteq DOMAIN units
    /\ Len(last.errors) >= 1 /\ last.errors[1].sourceName = ImportedName
    /\ \E i \in Published(UriB) : out[i].params.diagnostics = <<>>

\* the message is a didOpen whose parameters have no textDocument member
IsDidOpenWithoutDocument(m) ==
    /\ m.t = "obj"
    /\ member(m, "method") = JStr("textDocument/didOpen")
    /\ member(m, "params").t \in {"null", "obj"}
    /\ member(member(m, "params"), "textDocument").t = "null"

\* C15 as claimed: a didOpen without a textDocument parameter is answered
\* with a RequestFailed error, leaves the store as it was, runs no
\* compilation and publishes no diagnostics
C15_MissingDocumentRejected ==
    [][(/\ IterationStep
        /\ last'.outcome = "message"
        /\ IsDidOpenWithoutDocument(last'.message))
       => (/\ \E i \in 1 .. Len(out') : IsError(out'[i], "RequestFailed")
           /\ UNCHANGED <<units, compiled>>
           /\ last'.compilations = 0
           /\ \A i \in 1 .. Len(out') : out'[i].kind # "notify")]_vars

----------------------------------------------------------------------------
(* SpecSync: one document is opened and changed by batches of changes *)

SyncFrames == {GoodFrame}
SyncTexts == {<<>>, <<"a">>, <<"a", "a">>, <<"a", NL>>, <<NL, "a">>}
SyncChanges ==
    {JNonObj,
     \* the whole text
     Change(JStr(<<"b">>), JNull),
     \* the first character of line 0 becomes a line end
     Change(JStr(<<NL>>), JRange(JPos(0, 0), JPos(0, 1))),
     \* insertions at the start of line 1 and after the first character
     Change(JStr(<<"b">>), JRange(JPos(1, 0), JPos(1, 0))),
     Change(JStr(<<"b">>), JRange(JPos(0, 1), JPos(0, 1))),
     \* line 0 is deleted
     Change(JStr(<<>>), JRange(JPos(0, 0), JPos(1, 0))),
     \* the start is behind the end
     Change(JStr(<<"b">>), JRange(JPos(0, 1), JPos(0, 0)))}
SyncMessages ==
    {Message("textDocument/didOpen", NullId, DidOpenParams(UriA, JStr(text))) :
        text \in SyncTexts}
    \cup DidChangeMessages({UriA}, SyncChanges, MaxChanges)
SyncErrors == {<<>>}

NextSync ==
    \/ \E frame \in SyncFrames : ClientSend(frame)
    \/ ClientClose
    \/ RunIteration(SyncMessages, SyncErrors, MaxLen)
    \/ RunReturn

SpecSync == Init /\ [][NextSync]_vars

\* the message is a didChange; its document and its entries
IsDidChange(m) ==
    /\ m.t = "obj"
    /\ member(m, "method") = JStr("textDocument/didChange")
    /\ member(m.params, "contentChanges").t = "arr"
ChangedName(m) == clientPathToSourceUnitName(m.params.textDocument.uri.s)
ChangeItems(m) == m.params.contentChanges.items

\* the reference model of a position: offset o of buffer is at (line, character)
At(buffer, o, position) ==
    /\ position.character <= o
    /\ Cardinality({j \in 1 .. o : buffer[j] = NL}) = position.line
    /\ \A j \in (o - position.character + 1) .. o : buffer[j] # NL
    /\ o = position.character \/ buffer[o - position.character] = NL
OffsetsAt(buffer, position) ==
    IF position.t # "obj" THEN {}
    ELSE {o \in 0 .. Len(buffer) : At(buffer, o, position)}

\* the reference model of one entry: it resolves against buffer, and the
\* splice it describes
Resolves(buffer, entry) ==
    /\ entry.t = "obj"
    /\ entry.text.t = "str"
    /\ entry.range.t = "obj" =>
          \E a \in OffsetsAt(buffer, entry.range.start),
             b \in OffsetsAt(buffer, entry.range.end) : a <= b
Splice(buffer, entry) ==
    IF entry.range.t # "obj" THEN entry.text.s
    ELSE LET a == CHOOSE o \in OffsetsAt(buffer, entry.range.start) : TRUE
             b == CHOOSE o \in OffsetsAt(buffer, entry.range.end) : TRUE
             new == entry.text.s
         IN  [i \in 1 .. (Len(buffer) - (b - a) + Len(new)) |->
                 IF i <= a THEN buffer[i]
                 ELSE IF i <= a + Len(new) THEN new[i - a]
                 ELSE buffer[i - Len(new) + (b - a)]]

\* the left fold of the reference splice over the entries from i on
RECURSIVE SpliceAll(_, _, _)
SpliceAll(buffer, entries, i) ==
    IF i > Len(entries) THEN [ok |-> TRUE, text |-> buffer]
    ELSE IF ~Resolves(buffer, entries[i]) THEN [ok |-> FALSE, text |-> buffer]
    ELSE SpliceAll(Splice(buffer, entries[i]), entries, i + 1)

\* C4 as claimed: after a didChange for a known document that is answered
\* with RequestFailed, the text of the document is its text before the batch
C4_FailedBatchRestored ==
    [][(/\ IterationStep
        /\ last'.outcome = "message"
        /\ IsDidChange(last'.message)
        /\ ChangedName(last'.message) \in DOMAIN units
        /\ \E i \in 1 .. Len(out') : IsError(out'[i], "RequestFailed"))
       => units'[ChangedName(last'.message)] = units[ChangedName(last'.message)]]_vars

\* C5: after a didChange for a known document in which every entry resolves,
\* the text of the document is the left fold of the reference splice over
\* the entries, each resolved against the buffer the entries before it made
C5_FoldOfSplices ==
    [][(/\ IterationStep
        /\ last'.outcome = "message"
        /\ IsDidChange(last'.message)
        /\ ChangedName(last'.message) \in DOMAIN units
        /\ SpliceAll(units[ChangedName(last'.message)],
                     ChangeItems(last'.message), 1).ok)
       => units'[ChangedName(last'.message)]
             = SpliceAll(units[ChangedName(last'.message)],
                         ChangeItems(last'.message), 1).text]_vars

\* a batch of two ranged entries was applied, the second of which resolves
\* only against the buffer the first one made (it is on line 1, which the
\* first entry creates)
C5_Witness ==
    /\ last.outcome = "message"
    /\ IsDidChange(last.message)
    /\ last.compilations = 1
    /\ ChangeItems(last.message)
          = <<Change(JStr(<<NL>>), JRange(JPos(0, 0), JPos(0, 1))),
              Change(JStr(<<"b">>), JRange(JPos(1, 0), JPos(1, 0)))>>
    /\ units["A.sol"] = <<NL, "b">>

\* C18 as claimed: whenever run is about to read a message, the texts the
\* last compilation read, from which the last diagnostics were published,
\* are the texts of the store
C18_CompiledIsCurrent == pc = "running" => compiled = units

\* C16 as claimed, checked under SpecDocs: a didChange that names a document
\* that is not in the store is answered with a RequestFailed error, whatever
\* its contentChanges are, leaves the store as it was, runs no compilation
\* and publishes no diagnostics
C16_UnknownDocumentRejected ==
    [][(/\ IterationStep
        /\ last'.outcome = "message"
        /\ IsDidChange(last'.message)
        /\ ChangedName(last'.message) \notin DOMAIN units)
       => (/\ \E i \in 1 .. Len(out') : IsError(out'[i], "RequestFailed")
           /\ UNCHANGED <<units, compiled>>
           /\ last'.compilations = 0
           /\ \A i \in 1 .. Len(out') : out'[i].kind # "notify")]_vars

----------------------------------------------------------------------------
(* SpecRoundTrip: a location of a stored text is translated to a protocol
   range and the range is parsed back *)

ProbeTexts == SeqsUpTo({"a", NL}, MaxProbeLen)

InitRoundTrip ==
    \E text \in ProbeTexts :
        \E start \in 0 .. Len(text) :
            \E end \in start .. Len(text) :
                /\ InitWith([n \in {"A.sol"} |-> text])
                /\ probe = [stage |-> "location",
                            location |-> [start |-> start, end |-> end,
                                          sourceName |-> "A.sol"],
                            range |-> JNull, parsed |-> nullopt]

\* toRange of the location, as compileAndUpdateDiagnostics calls it
ProbeToRange ==
    /\ probe.stage = "location"
    /\ probe' = [probe EXCEPT !.stage = "range",
                              !.range = toRange(compiled, probe.location)]
    /\ UNCHANGED <<serverVars, out, last, pending, inputEnded>>

\* parseRange of the range, as handleTextDocumentDidChange calls it
ProbeParseRange ==
    /\ probe.stage = "range"
    /\ probe' = [probe EXCEPT !.stage = "parsed",
                              !.parsed = parseRange(units, "A.sol", probe.range)]
    /\ UNCHANGED <<serverVars, out, last, pending, inputEnded>>

NextRoundTrip == ProbeToRange \/ ProbeParseRange

SpecRoundTrip == InitRoundTrip /\ [][NextRoundTrip]_vars

\* C9: the offsets of a location of a stored text, translated to (line,
\* character) and parsed back, are the offsets of the location
C9_RoundTrip ==
    probe.stage = "parsed" =>
        /\ probe.parsed.start = probe.location.start
        /\ probe.parsed.end = probe.location.end
        /\ parsePosition(units, "A.sol", probe.range.start).start = probe.location.start

\* the round trip of a location that starts on line 0 and ends behind a
\* line end, at the end of the text
C9_Witness ==
    /\ probe.stage = "parsed"
    /\ units["A.sol"] = <<"a", NL, "a">>
    /\ probe.location.start = 1 /\ probe.location.end = 3
    /\ probe.range = JRange(JPos(0, 1), JPos(1, 1))
    /\ probe.parsed.end = 3

----------------------------------------------------------------------------
(* SpecExample: "A.sol" is opened with the text "contract C {}" and changed
   by one entry that replaces a range of line 0 with "library" *)

ExampleText == <<"c", "o", "n", "t", "r", "a", "c", "t", " ", "C", " ", "{", "}">>
LibraryText == <<"l", "i", "b", "r", "a", "r", "y">>
ExampleResult == <<"l", "i", "b", "r", "a", "r", "y", " ", "C", " ", "{", "}">>

ExampleChange(start, end) ==
    Message("textDocument/didChange", "1",
            DidChangeParams(UriA, <<Change(JStr(LibraryText),
                                           JRange(JPos(0, start), JPos(0, end)))>>))
ExampleMessages ==
    {Message("textDocument/didOpen", NullId, DidOpenParams(UriA, JStr(ExampleText)))}
    \cup {ExampleChange(start, end) : start \in {0, 9}, end \in 0 .. MaxExampleColumn}

NextExample ==
    \/ ClientSend(GoodFrame)
    \/ ClientClose
    \/ RunIteration(ExampleMessages, {<<>>}, Len(ExampleText))
    \/ RunReturn

SpecExample == Init /\ [][NextExample]_vars

\* the store holds "A.sol" with the text of the example
HoldsExample == "A.sol" \in DOMAIN units /\ units["A.sol"] = ExampleText

\* C10 as claimed: the change (0,9)-(0,17) to "library" of "contract C {}"
\* leaves the text "library C {}"
C10_ExampleAsClaimed ==
    [][(IterationStep /\ HoldsExample /\ last'.outcome = "message"
        /\ last'.message = ExampleChange(9, 17))
       => units'["A.sol"] = ExampleResult]_vars

\* C10 amended: the change (0,0)-(0,8) to "library" of "contract C {}" leaves
\* the text "library C {}"; the change (0,9)-(0,17), whose end is behind the
\* 13 bytes of the text, is answered with RequestFailed and leaves the text
C10_Example ==
    [][(IterationStep /\ HoldsExample /\ last'.outcome = "message")
       => /\ last'.message = ExampleChange(0, 8) => units'["A.sol"] = ExampleResult
          /\ last'.message = ExampleChange(9, 17) =>
                /\ units'["A.sol"] = ExampleText
                /\ Len(out') = 1
                /\ IsError(out'[1], "RequestFailed")
                /\ out'[1].id = "1"
                /\ out'[1].message[1] = "Invalid source range: "]_vars

\* the change (0,0)-(0,8) was applied to the text of the example
C10_Witness ==
    /\ last.outcome = "message"
    /\ last.message = ExampleChange(0, 8)
    /\ last.compilations = 1
    /\ units["A.sol"] = ExampleResult
    /\ compiled["A.sol"] = ExampleResult

----------------------------------------------------------------------------
(* SpecInit: the server is initialized, more than once, with and without a
   root URI, a root path and initialization options, and is configured *)

Options == [t |-> "obj", name |-> "options"]
RootUris ==
    {JNull, JNonStr, JStr(<<>>), JStr(<<"file://", "/p">>), JStr(<<"file://", "/r">>),
     JStr(<<"http://", "/p">>), JStr(<<"/p">>)}
RootPaths == {JNull, JNonStr, JStr(<<"/q">>)}

Initialize(id, uri, path, options) ==
    Message("initialize", id,
            [t |-> "obj", rootUri |-> uri, rootPath |-> path,
             initializationOptions |-> options])

InitMessages ==
    {Initialize(id, uri, path, options) :
        id \in {NullId, "1"}, uri \in RootUris, path \in RootPaths,
        options \in {JNull, Options}}
    \cup InitializeMessages
    \cup ConfigurationMessages
    \cup {Message("initialize", "1", JNull), Message("initialize", "1", JNonObj),
          Message("exit", NullId, JNull)}

NextInit ==
    \/ ClientSend(GoodFrame)
    \/ ClientClose
    \/ RunIteration(InitMessages, {<<>>}, MaxLen)
    \/ RunReturn

SpecInit == Init /\ [][NextInit]_vars

\* the message is an initialize request with an object for its parameters
IsInitialize(m) ==
    /\ m.t = "obj"
    /\ member(m, "method") = JStr("initialize")
    /\ member(m, "params").t = "obj"
RootUri(m) == member(m.params, "rootUri")
RootPath(m) == member(m.params, "rootPath")

\* C11: an initialize request whose rootUri is a string that does not start
\* with "file://" gets exactly one response, an InvalidParams error with the
\* id of the request, and leaves the base path and the configuration as they
\* were, whatever its initializationOptions are
C11_ForeignSchemeRejected ==
    [][(/\ IterationStep
        /\ last'.outcome = "message"
        /\ IsInitialize(last'.message)
        /\ RootUri(last'.message).t = "str"
        /\ ~(/\ Len(RootUri(last'.message).s) >= 1
             /\ Head(RootUri(last'.message).s) = "file://"))
       => (/\ Len(out') = 1
           /\ IsError(out'[1], "InvalidParams")
           /\ out'[1].id = last'.message.id
           /\ UNCHANGED <<basePath, settingsObject>>)]_vars

\* an initialize request with an "http://" root URI and an object for its
\* initializationOptions was rejected by a server that had a base path and a
\* configuration from earlier messages
C11_Witness ==
    /\ Dispatched("initialize")
    /\ last.message = Initialize("1", JStr(<<"http://", "/p">>), JNull, Options)
    /\ Len(out) = 1 /\ IsError(out[1], "InvalidParams") /\ out[1].id = "1"
    /\ basePath = <<"/r">>
    /\ settingsObject = Settings

\* C12 as claimed: after an initialize request without rootUri and with the
\* rootPath P the base path is P, and after one with the rootUri file://P
\* it is P
C12_BasePathInstalled ==
    [][(/\ IterationStep
        /\ last'.outcome = "message"
        /\ IsInitialize(last'.message))
       => (/\ (RootUri(last'.message).t = "null" /\ RootPath(last'.message).t = "str")
                => basePath' = RootPath(last'.message).s
           /\ (/\ RootUri(last'.message).t = "str"
               /\ Len(RootUri(last'.message).s) >= 1
               /\ Head(RootUri(last'.message).s) = "file://")
                => basePath' = Tail(RootUri(last'.message).s))]_vars

====
